---- MODULE Spec2Model ----
(***************************************************************************)
(* Tic-Tac-Toe (src/script.js): the game state, the click and restart      *)
(* handlers with the rendering they perform, and the theme preference.     *)
(***************************************************************************)
EXTENDS Integers, Sequences, FiniteSets, TLC

VARIABLES
    board,          \* state.board: cell index 0..8 -> Null, "X" or "O"
    currentPlayer,  \* state.currentPlayer
    gameOver,       \* state.gameOver
    winner,         \* state.winner: Null, "X" or "O"
    winningLine,    \* state.winningLine: NoLine or <<a, b, c>>
    cells,          \* the .cell buttons: index -> [text, classes, disabled]
    turnDisplay,    \* #turnDisplay: [classes, text]
    overlayHidden,  \* #messageOverlay carries the class 'hidden'
    message,        \* #messageText: [classes, text]
    stored,         \* localStorage value under THEME_STORAGE_KEY, Null if absent
    dataTheme,      \* data-theme attribute of the document element
    selectValue,    \* themeSelectEl.value
    lastEvent       \* which listener ran last and which return it took

gameVars == <<board, currentPlayer, gameOver, winner, winningLine>>
viewVars == <<cells, turnDisplay, overlayHidden, message>>
themeVars == <<stored, dataTheme, selectValue>>
vars == <<board, currentPlayer, gameOver, winner, winningLine,
          cells, turnDisplay, overlayHidden, message,
          stored, dataTheme, selectValue, lastEvent>>

\* JavaScript null. An absent winningLine is the empty tuple, so that it
\* stays comparable with a triple.
Null == "null"
NoLine == <<>>

Cells == 0 .. 8

\* Truthiness of the values the script tests with `val &&`, `value ||`.
Truthy(v) == v \notin {Null, ""}

\* String.prototype.toLowerCase on the two markers.
ToLowerCase(p) == IF p = "X" THEN "x" ELSE IF p = "O" THEN "o" ELSE p

\* ===== Game logic =====

\* Variant: the diagonals are listed before the rows and columns.
WIN_LINES_DiagonalsFirst ==
    << <<0, 4, 8>>, <<2, 4, 6>>,
       <<0, 1, 2>>, <<3, 4, 5>>, <<6, 7, 8>>,
       <<0, 3, 6>>, <<1, 4, 7>>, <<2, 5, 8>> >>

WIN_LINES ==
    << <<0, 1, 2>>, <<3, 4, 5>>, <<6, 7, 8>>,
       <<0, 3, 6>>, <<1, 4, 7>>, <<2, 5, 8>>,
       <<0, 4, 8>>, <<2, 4, 6>> >>

\* checkWinner returns null when no line matches.
NoResult == [winner |-> Null, line |-> NoLine]

\* Variant: the third cell of the line is not compared.
LineMatches_TwoCells(b, l) ==
    Truthy(b[l[1]]) /\ b[l[1]] = b[l[2]]

\* The test of one line inside checkWinner's loop.
LineMatches(b, l) ==
    Truthy(b[l[1]]) /\ b[l[1]] = b[l[2]] /\ b[l[2]] = b[l[3]]

RECURSIVE ScanFrom(_, _)
ScanFrom(b, k) ==
    IF k > Len(WIN_LINES) THEN NoResult
    ELSE IF LineMatches(b, WIN_LINES[k])
         THEN [winner |-> b[WIN_LINES[k][1]], line |-> WIN_LINES[k]]
         ELSE ScanFrom(b, k + 1)

\* Variant: the loop stops one line early, the anti-diagonal is never tested.
CheckWinner_SkipsLast(b) ==
    LET r == ScanFrom(b, 1) IN
    IF r.line = WIN_LINES[Len(WIN_LINES)] THEN NoResult ELSE r

CheckWinner(b) == ScanFrom(b, 1)

\* Variant: `some` in place of `every`.
IsDraw_Some(b) == \E i \in Cells : b[i] # Null

\* Variant: the comparison is inverted, every cell must be null.
IsDraw_Inverted(b) == \A i \in Cells : b[i] = Null

IsDraw(b) == \A i \in Cells : b[i] # Null

\* Variant: the turn switch returns the player it was given.
OtherPlayer_Same(p) == IF p = "X" THEN "X" ELSE "O"

\* The turn switch of the last branch of handleCellClick.
OtherPlayer(p) == IF p = "X" THEN "O" ELSE "X"

\* The game state as one record, as the script's `state` object.
State ==
    [board |-> board, currentPlayer |-> currentPlayer, gameOver |-> gameOver,
     winner |-> winner, winningLine |-> winningLine]

\* Variant: the guard forgets the gameOver test.
Rejects_NoGameOverTest(s, index) == s.board[index] # Null

\* Variant: the guard forgets the occupied-cell test.
Rejects_NoOccupiedTest(s, index) == s.gameOver

\* The guard of handleCellClick: the click is dropped.
Rejects(s, index) == s.gameOver \/ s.board[index] # Null

\* Variant: the marker of the player who is not to move is written.
PlaceMark_WrongMarker(s, index) ==
    [s EXCEPT !.board = [s.board EXCEPT ![index] =
                            IF s.currentPlayer = "X" THEN "O" ELSE "X"]]

\* The write of the marker.
PlaceMark(s, index) ==
    [s EXCEPT !.board = [s.board EXCEPT ![index] = s.currentPlayer]]

\* Variant: the turn is switched after every accepted move, a winning one too.
Evaluate_AlwaysSwitches(s) ==
    LET result == CheckWinner(s.board)
        t == [s EXCEPT !.currentPlayer = OtherPlayer(s.currentPlayer)] IN
    IF result # NoResult
    THEN [t EXCEPT !.gameOver = TRUE, !.winner = result.winner,
                   !.winningLine = result.line]
    ELSE IF IsDraw(s.board)
         THEN [s EXCEPT !.gameOver = TRUE]
         ELSE t

\* Variant: the draw test comes before the win test.
Evaluate_DrawFirst(s) ==
    LET result == CheckWinner(s.board) IN
    IF IsDraw(s.board)
    THEN [s EXCEPT !.gameOver = TRUE]
    ELSE IF result # NoResult
         THEN [s EXCEPT !.gameOver = TRUE, !.winner = result.winner,
                        !.winningLine = result.line]
         ELSE [s EXCEPT !.currentPlayer = OtherPlayer(s.currentPlayer)]

\* The evaluation after the write: win, else draw, else switch turn.
Evaluate(s) ==
    LET result == CheckWinner(s.board) IN
    IF result # NoResult
    THEN [s EXCEPT !.gameOver = TRUE, !.winner = result.winner,
                   !.winningLine = result.line]
    ELSE IF IsDraw(s.board)
         THEN [s EXCEPT !.gameOver = TRUE]
         ELSE [s EXCEPT !.currentPlayer = OtherPlayer(s.currentPlayer)]

\* The `state` object literal the script starts from.
InitialState ==
    [board |-> [i \in Cells |-> Null], currentPlayer |-> "X",
     gameOver |-> FALSE, winner |-> Null, winningLine |-> NoLine]

\* Variant: winner and winningLine are not cleared.
Restart_KeepsWinner(s) ==
    [s EXCEPT !.board = [i \in Cells |-> Null], !.currentPlayer = "X",
              !.gameOver = FALSE]

\* Variant: currentPlayer is not set back to X.
Restart_KeepsPlayer(s) ==
    [s EXCEPT !.board = [i \in Cells |-> Null],
              !.gameOver = FALSE, !.winner = Null, !.winningLine = NoLine]

\* The five assignments of restartGame.
Restart(s) ==
    [s EXCEPT !.board = [i \in Cells |-> Null], !.currentPlayer = "X",
              !.gameOver = FALSE, !.winner = Null, !.winningLine = NoLine]

\* ===== Rendering =====

LineCells(line) == {line[k] : k \in 1 .. Len(line)}

RenderBoard(s) ==
    [i \in Cells |->
        [text |-> IF Truthy(s.board[i]) THEN s.board[i] ELSE "",
         classes |-> {"cell"}
             \cup (IF Truthy(s.board[i]) THEN {ToLowerCase(s.board[i])} ELSE {})
             \cup (IF s.winningLine # NoLine /\ i \in LineCells(s.winningLine)
                   THEN {"winning"} ELSE {}),
         disabled |-> s.gameOver]]

UpdateTurnDisplay(s) ==
    IF s.gameOver
    THEN [classes |-> {"game-over"},
          text |-> IF Truthy(s.winner)
                   THEN <<"Player ", s.winner, " wins!">>
                   ELSE <<"It's a draw!">>]
    ELSE [classes |-> {IF ToLowerCase(s.currentPlayer) = "x"
                       THEN "player-x" ELSE "player-o"},
          text |-> <<"Player ", s.currentPlayer, "'s turn">>]

ShowMessage(s) ==
    IF Truthy(s.winner)
    THEN [classes |-> {IF ToLowerCase(s.winner) = "x" THEN "win-x" ELSE "win-o"},
          text |-> <<"Player ", s.winner, " wins!">>]
    ELSE [classes |-> {"draw"}, text |-> <<"It's a draw!">>]

\* ===== Theme =====

THEMES == {"dark", "light", "retro", "ocean", "sunset", "forest"}

\* What localStorage may hold under the key when the page loads.
StoredValues == {Null, ""} \cup THEMES \cup {"neon"}

\* Variant: the allow-list test is missing.
SavedTheme_NoAllowList(pre, getOk) ==
    IF ~getOk THEN "dark"
    ELSE IF Truthy(pre) THEN pre ELSE "dark"

\* Variant: the fallback of an absent or unknown value is 'light'.
SavedTheme_WrongDefault(pre, getOk) ==
    IF ~getOk THEN "dark"
    ELSE LET saved == IF Truthy(pre) THEN pre ELSE "light"
         IN  IF saved \notin THEMES THEN "light" ELSE saved

\* initTheme's choice of the theme; getOk is FALSE when getItem throws.
SavedTheme(pre, getOk) ==
    IF ~getOk THEN "dark"
    ELSE LET saved == IF Truthy(pre) THEN pre ELSE "dark"
         IN  IF saved \notin THEMES THEN "dark" ELSE saved

\* Variant: the setItem call is missing.
ApplyTheme_NeverWrites(theme, pre, setOk) ==
    /\ dataTheme' = theme
    /\ selectValue' = theme
    /\ stored' = pre

\* applyTheme; setOk is FALSE when setItem throws.
ApplyTheme(theme, pre, setOk) ==
    /\ dataTheme' = theme
    /\ selectValue' = theme
    /\ stored' = IF setOk THEN theme ELSE pre

\* ===== Page load: initTheme(); restartGame(); =====

LoadedFrom(pre, getOk, setOk) ==
    /\ dataTheme = SavedTheme(pre, getOk)
    /\ selectValue = SavedTheme(pre, getOk)
    /\ stored = (IF setOk THEN SavedTheme(pre, getOk) ELSE pre)
    /\ board = Restart(InitialState).board
    /\ currentPlayer = Restart(InitialState).currentPlayer
    /\ gameOver = Restart(InitialState).gameOver
    /\ winner = Restart(InitialState).winner
    /\ winningLine = Restart(InitialState).winningLine
    /\ cells = RenderBoard(Restart(InitialState))
    /\ turnDisplay = UpdateTurnDisplay(Restart(InitialState))
    /\ overlayHidden = TRUE
    /\ message = [classes |-> {}, text |-> <<>>]
    /\ lastEvent = "load"

\* First visit: nothing stored, storage works.
Init == LoadedFrom(Null, TRUE, TRUE)

\* Any earlier content of the storage, any storage failure.
InitStored ==
    \E pre \in StoredValues : \E getOk \in BOOLEAN : \E setOk \in BOOLEAN :
        LoadedFrom(pre, getOk, setOk)

\* ===== Handlers =====

\* The data-index attribute of the nine cells, and parseInt(_, 10) of it.
DataIndex == [i \in Cells |-> <<"0", "1", "2", "3", "4", "5", "6", "7", "8">>[i + 1]]
ParseInt(str) == CHOOSE i \in Cells : DataIndex[i] = str

\* What a click inside #board can hit: a cell, or the board itself.
Targets == {DataIndex[i] : i \in Cells} \cup {"board"}

SetState(s) ==
    /\ board' = s.board
    /\ currentPlayer' = s.currentPlayer
    /\ gameOver' = s.gameOver
    /\ winner' = s.winner
    /\ winningLine' = s.winningLine

HandleCellClick(target) ==
    IF target = "board"
    THEN /\ lastEvent' = "click-outside"
         /\ UNCHANGED <<gameVars, viewVars, themeVars>>
    ELSE LET index == ParseInt(target) IN
         IF Rejects(State, index)
         THEN /\ lastEvent' = "click-rejected"
              /\ UNCHANGED <<gameVars, viewVars, themeVars>>
         ELSE /\ SetState(Evaluate(PlaceMark(State, index)))
              /\ cells' = RenderBoard(State')
              /\ turnDisplay' = UpdateTurnDisplay(State')
              /\ IF gameOver'
                 THEN overlayHidden' = FALSE /\ message' = ShowMessage(State')
                 ELSE UNCHANGED <<overlayHidden, message>>
              /\ lastEvent' = "click-accepted"
              /\ UNCHANGED themeVars

\* Variant: the overlay is not hidden again.
RestartGame_KeepsOverlay ==
    /\ SetState(Restart(State))
    /\ cells' = RenderBoard(Restart(State))
    /\ turnDisplay' = UpdateTurnDisplay(Restart(State))
    /\ lastEvent' = "restart"
    /\ UNCHANGED <<overlayHidden, message, themeVars>>

RestartGame ==
    /\ SetState(Restart(State))
    /\ overlayHidden' = TRUE
    /\ cells' = RenderBoard(Restart(State))
    /\ turnDisplay' = UpdateTurnDisplay(Restart(State))
    /\ lastEvent' = "restart"
    /\ UNCHANGED <<message, themeVars>>

HandleThemeChange(choice, setOk) ==
    /\ ApplyTheme(choice, stored, setOk)
    /\ lastEvent' = "theme"
    /\ UNCHANGED <<gameVars, viewVars>>

CellClick == \E target \in Targets : HandleCellClick(target)

Next == CellClick \/ RestartGame

Spec == Init /\ [][Next]_vars

\* ===== Vocabulary of the properties =====

\* The eight win lines as the index sets of the rows, columns and diagonals.
WinLines ==
    {{0, 1, 2}, {3, 4, 5}, {6, 7, 8}, {0, 3, 6}, {1, 4, 7}, {2, 5, 8},
     {0, 4, 8}, {2, 4, 6}}

Markers == {"X", "O"}

Completed(b, L) == \E m \in Markers : \A i \in L : b[i] = m
HasLine(b) == \E L \in WinLines : Completed(b, L)
Full(b) == \A i \in Cells : b[i] \in Markers
Occupied(b) == Cardinality({i \in Cells : b[i] \in Markers})
EmptyBoard == [i \in Cells |-> Null]

\* The step wrote a marker into the empty cell i and left the other cells.
Placed(i) ==
    /\ board[i] = Null
    /\ board'[i] \in Markers
    /\ board' = [board EXCEPT ![i] = board'[i]]

\* The board after the moves 0,3,1,4,2 and after 0,1,2,4,3,5,7,6,8.
TopRowBoard ==
    [i \in Cells |-> IF i \in {0, 1, 2} THEN "X"
                     ELSE IF i \in {3, 4} THEN "O" ELSE Null]
DrawBoard ==
    [i \in Cells |-> IF i \in {0, 2, 3, 7, 8} THEN "X" ELSE "O"]

\* ===== Properties =====

\* C1: once gameOver is true, a click on any cell changes nothing of the
\* game state, and the only step that changes the game state is the restart.
C1_GameOverFreezes ==
    [][gameOver =>
        /\ \A t \in Targets : HandleCellClick(t) => UNCHANGED gameVars
        /\ (UNCHANGED gameVars \/ RestartGame)]_vars

C1_Witness == gameOver /\ lastEvent = "click-rejected"

\* C2: a click on an occupied cell changes nothing of the game state: the
\* cell keeps its marker, and turn, gameOver, winner and line stay.
C2_OccupiedIsNoOp ==
    [][\A i \in Cells :
        (board[i] # Null /\ HandleCellClick(DataIndex[i]))
            => UNCHANGED gameVars]_vars

C2_Witness == ~gameOver /\ lastEvent = "click-rejected" /\ board[0] = "X"

\* C3: gameOver is true exactly when the board has a completed win line or
\* all nine cells are occupied.
C3_GameOverIff == gameOver <=> (HasLine(board) \/ Full(board))

C3_Witness == gameOver /\ HasLine(board) /\ ~Full(board)

\* C4: winner is set exactly when the board has a completed win line, so it
\* is absent in every drawn and every running game.
C4_WinnerIff == (winner # Null) <=> HasLine(board)

C4_Witness == winner = "O" /\ Completed(board, {2, 4, 6})

\* C5: a present winningLine is one of the eight triples, winner is present
\* and the three cells of the line hold winner; winningLine is present
\* exactly when winner is.
C5_WinningLine ==
    /\ (winningLine # NoLine) <=> (winner # Null)
    /\ winningLine # NoLine =>
        /\ Len(winningLine) = 3
        /\ LineCells(winningLine) \in WinLines
        /\ winner \in Markers
        /\ \A k \in 1 .. 3 : board[winningLine[k]] = winner

C5_Witness == winningLine = <<1, 4, 7>> /\ winner = "X"

\* C6: an accepted move that completes a line ends the game with the mover
\* as winner and does not switch the turn, so currentPlayer = winner in
\* every won state; the moves 0,3,1,4,2 give winner X on line 0,1,2.
C6_WinKeepsTurn ==
    /\ [][\A i \in Cells :
            (Placed(i) /\ HasLine(board')) =>
                /\ gameOver'
                /\ board'[i] = currentPlayer
                /\ winner' = currentPlayer
                /\ currentPlayer' = currentPlayer]_vars
    /\ [](winner # Null => gameOver /\ currentPlayer = winner)
    /\ [](board = TopRowBoard =>
            gameOver /\ winner = "X" /\ winningLine = <<0, 1, 2>>)

C6_Witness == board = TopRowBoard /\ lastEvent = "click-accepted"

\* C7: the k-th marker written since the last restart is X for odd k and O
\* for even k, and a step that writes no marker leaves the turn as it is
\* unless it is the restart.
C7_Alternation ==
    /\ [][\A i \in Cells :
            Placed(i) =>
                board'[i] = (IF Occupied(board) % 2 = 0 THEN "X" ELSE "O")]_vars
    /\ [][(board' = board) => (currentPlayer' = currentPlayer)]_vars

C7_Witness ==
    /\ lastEvent = "click-accepted"
    /\ Occupied(board) = 4
    /\ Cardinality({i \in Cells : board[i] = "O"}) = 2

\* C8: the restart is enabled in every state and yields the initial game
\* state: empty board, X to move, gameOver false, no winner, no line.
C8_ResetYieldsInitial ==
    /\ ENABLED RestartGame
    /\ lastEvent = "restart" =>
        /\ board = EmptyBoard
        /\ currentPlayer = "X"
        /\ gameOver = FALSE
        /\ winner = Null
        /\ winningLine = NoLine

\* A restart after a game was won: the message of that game is still there.
C8_Witness ==
    lastEvent = "restart" /\ message.text = <<"Player ", "O", " wins!">>

\* C9: a full board without a completed line is a draw: gameOver is true,
\* winner and winningLine are absent; the moves 0,1,2,4,3,5,7,6,8 end so.
C9_FullNoLineIsDraw ==
    /\ (Full(board) /\ ~HasLine(board)) =>
        (gameOver /\ winner = Null /\ winningLine = NoLine)
    /\ board = DrawBoard => (gameOver /\ winner = Null)

C9_Witness == board = DrawBoard /\ lastEvent = "click-accepted"

\* C10: a move that fills the last cell and completes a line is a win, and
\* a full board without winner has no completed line.
C10_WinBeatsDraw ==
    /\ [][\A i \in Cells :
            (Placed(i) /\ Full(board') /\ HasLine(board')) =>
                (winner' = board'[i] /\ winningLine' # NoLine)]_vars
    /\ []((Full(board) /\ winner = Null) => ~HasLine(board))

C10_Witness ==
    Full(board) /\ winner = "X" /\ lastEvent = "click-accepted"

\* C11: X has as many cells as O or exactly one more; a step that changes
\* the board writes one marker into one empty cell and leaves the other
\* eight, or it is the restart; a placed marker stays until the restart.
Count(b, m) == Cardinality({i \in Cells : b[i] = m})

C11_CountsAndSingleWrite ==
    /\ [](Count(board, "X") - Count(board, "O") \in {0, 1})
    /\ [][(board' # board) =>
            \/ \E i \in Cells : Placed(i)
            \/ RestartGame]_vars
    /\ [][\A i \in Cells :
            (board[i] \in Markers /\ board'[i] # board[i]) => RestartGame]_vars

C11_Witness ==
    /\ lastEvent = "click-accepted"
    /\ Count(board, "X") = 3
    /\ Count(board, "O") = 2

\* C15 as stated: the board never has more than one completed win line.
CompletedLines(b) == {L \in WinLines : Completed(b, L)}

C15_AtMostOneLine == Cardinality(CompletedLines(board)) <= 1

\* C15 amended: a winning move completes one or two lines; every completed
\* line holds the mover's marker and passes through the cell just played,
\* and a board without winner has no completed line.
C15_OneOrTwoLines ==
    /\ [][\A i \in Cells :
            (Placed(i) /\ HasLine(board')) =>
                /\ Cardinality(CompletedLines(board')) \in {1, 2}
                /\ \A L \in CompletedLines(board') :
                       i \in L /\ \A j \in L : board'[j] = board'[i]]_vars
    /\ [](Cardinality(CompletedLines(board)) <= 2)
    /\ [](\A L \in CompletedLines(board) : \A j \in L : board[j] = winner)

C15_Witness ==
    Cardinality(CompletedLines(board)) = 2 /\ lastEvent = "click-accepted"

\* C16: checkWinner returns the first line, in the order rows, columns,
\* diagonal, anti-diagonal, whose three cells are equal and non-empty, and
\* no winner if there is none; so no completed line precedes winningLine.
ScanOrder ==
    <<{0, 1, 2}, {3, 4, 5}, {6, 7, 8}, {0, 3, 6}, {1, 4, 7}, {2, 5, 8},
      {0, 4, 8}, {2, 4, 6}>>

FirstCompleted(b) ==
    CHOOSE k \in 1 .. 8 :
        Completed(b, ScanOrder[k]) /\ \A j \in 1 .. (k - 1) : ~Completed(b, ScanOrder[j])

C16_FirstInOrder ==
    /\ HasLine(board) =>
        /\ LineCells(CheckWinner(board).line) = ScanOrder[FirstCompleted(board)]
        /\ CheckWinner(board).winner \in Markers
        /\ \A j \in ScanOrder[FirstCompleted(board)] :
               board[j] = CheckWinner(board).winner
    /\ ~HasLine(board) => CheckWinner(board) = NoResult
    /\ winner # Null =>
        LineCells(winningLine) = ScanOrder[FirstCompleted(board)]

C16_Witness ==
    /\ winningLine = <<0, 1, 2>>
    /\ Completed(board, {0, 4, 8})
    /\ lastEvent = "click-accepted"

\* C17: while the game runs, X is to move exactly when X and O have the
\* same number of cells and O exactly when X has one more; in a drawn game
\* currentPlayer is X.
C17_TurnFromBoard ==
    /\ ~gameOver =>
        /\ (currentPlayer = "X") <=> (Count(board, "X") = Count(board, "O"))
        /\ (currentPlayer = "O") <=> (Count(board, "X") = Count(board, "O") + 1)
    /\ (gameOver /\ winner = Null) => currentPlayer = "X"

C17_Witness ==
    ~gameOver /\ currentPlayer = "O" /\ Occupied(board) = 7

\* C19: the message overlay is visible exactly when gameOver is true, and
\* every rendered cell is disabled exactly when gameOver is true.
C19_ViewAgrees ==
    /\ overlayHidden <=> ~gameOver
    /\ \A i \in Cells : cells[i].disabled <=> gameOver

C19_Witness ==
    gameOver /\ ~overlayHidden /\ cells[4].disabled /\ lastEvent = "click-rejected"

\* ===== Play under fairness =====

\* A click that is accepted: it changes the board.
AcceptedClick ==
    /\ ~gameOver
    /\ \E i \in Cells : board[i] = Null /\ HandleCellClick(DataIndex[i])

\* One game without restart in which the players keep playing: an accepted
\* click that stays possible is made.
SpecFair == Init /\ [][CellClick]_vars /\ WF_vars(AcceptedClick)

\* C18: a running game has an empty cell and an accepted click enabled;
\* every accepted click leaves one empty cell fewer; a finished game has
\* between five and nine markers and nine markers finish the game; and with
\* accepted clicks made fairly and no restart, gameOver is reached and stays.
Empties(b) == Cardinality({i \in Cells : b[i] = Null})

C18_GameTerminates ==
    /\ [](~gameOver => (Empties(board) >= 1 /\ ENABLED AcceptedClick))
    /\ [][(CellClick /\ gameVars' # gameVars) =>
            Empties(board') = Empties(board) - 1]_vars
    /\ [](gameOver => Occupied(board) \in 5 .. 9)
    /\ [](Occupied(board) = 9 => gameOver)
    /\ <>[]gameOver

C18_Witness ==
    gameOver /\ Occupied(board) = 5 /\ lastEvent = "click-accepted"

\* ===== The theme preference from before the page load =====

\* Accepted clicks allowed per game while the theme is explored.
MaxMoves == 2

\* The page before the script's two initial calls: the state literal, the
\* markup, and whatever an earlier visit left in the storage.
Boot ==
    /\ stored \in StoredValues
    /\ dataTheme = Null
    /\ selectValue \in THEMES
    /\ board = InitialState.board
    /\ currentPlayer = InitialState.currentPlayer
    /\ gameOver = InitialState.gameOver
    /\ winner = InitialState.winner
    /\ winningLine = InitialState.winningLine
    /\ cells = [i \in Cells |-> [text |-> "", classes |-> {"cell"}, disabled |-> FALSE]]
    /\ turnDisplay = [classes |-> {}, text |-> <<>>]
    /\ overlayHidden \in BOOLEAN
    /\ message = [classes |-> {}, text |-> <<>>]
    /\ lastEvent = "boot"

\* initTheme(); restartGame();
Load(getOk, setOk) ==
    /\ lastEvent = "boot"
    /\ ApplyTheme(SavedTheme(stored, getOk), stored, setOk)
    /\ SetState(Restart(State))
    /\ overlayHidden' = TRUE
    /\ cells' = RenderBoard(Restart(State))
    /\ turnDisplay' = UpdateTurnDisplay(Restart(State))
    /\ lastEvent' = "load"
    /\ UNCHANGED message

PageLoad == \E getOk \in BOOLEAN : \E setOk \in BOOLEAN : Load(getOk, setOk)

\* The user picks an option of the selector; the change event follows.
ThemeChange ==
    \E choice \in THEMES : \E setOk \in BOOLEAN : HandleThemeChange(choice, setOk)

BoundedClick == Occupied(board) < MaxMoves /\ CellClick

\* The listeners run only after the script has finished loading.
NextTheme ==
    \/ PageLoad
    \/ lastEvent # "boot" /\ ThemeChange
    \/ lastEvent # "boot" /\ RestartGame
    \/ lastEvent # "boot" /\ BoundedClick

SpecTheme == Boot /\ [][NextTheme]_vars

\* The recognized options and the default.
AllowList == {"dark", "light", "retro", "ocean", "sunset", "forest"}
Default == "dark"

\* C12: the load at page start always completes and applies a member of the
\* allow-list: the default when the read throws, when nothing is stored or
\* when the stored value is not in the allow-list, else the stored value.
C12_LoadReturnsAllowed ==
    /\ [](lastEvent = "boot" =>
            \A g \in BOOLEAN : \A w \in BOOLEAN : ENABLED Load(g, w))
    /\ [][\A g \in BOOLEAN : \A w \in BOOLEAN :
            Load(g, w) =>
                /\ dataTheme' \in AllowList
                /\ dataTheme' = (IF ~g \/ stored = Null \/ stored \notin AllowList
                                 THEN Default ELSE stored)]_vars

C12_Witness == lastEvent = "load" /\ dataTheme = "dark" /\ stored = "neon"

\* C13 as stated: the stored value changes only by a theme selection, and
\* the page load leaves it as it was.
C13_OnlySelectionWrites ==
    [][/\ (stored' # stored) => ThemeChange
       /\ PageLoad => (stored' = stored)]_vars

\* C13 amended: the stored value changes only by a theme selection or by
\* the page load; the page load stores the theme it applies when the write
\* works (the stored value itself if it was read and is in the allow-list,
\* else the default) and leaves the stored value when the write throws.
C13_LoadWritesToo ==
    [][/\ (stored' # stored) => (ThemeChange \/ PageLoad)
       /\ \A g \in BOOLEAN : \A w \in BOOLEAN :
            Load(g, w) =>
                stored' = (IF ~w THEN stored
                           ELSE IF g /\ stored \in AllowList THEN stored
                           ELSE Default)]_vars

C13_Witness == lastEvent = "load" /\ stored = "dark" /\ dataTheme = "dark"

\* C14: a theme selection stores the option when the write works, and a
\* load of that value gives the option back; when the write throws the
\* handler still completes and the stored value stays.
C14_SaveWritesOrDrops ==
    /\ [](lastEvent # "boot" =>
            \A c \in AllowList : ENABLED HandleThemeChange(c, FALSE))
    /\ [][\A c \in AllowList : \A w \in BOOLEAN :
            HandleThemeChange(c, w) =>
                /\ stored' = (IF w THEN c ELSE stored)
                /\ w => SavedTheme(stored', TRUE) = c]_vars

C14_Witness == lastEvent = "theme" /\ stored = "ocean" /\ dataTheme = "forest"

====
